---- MODULE Spec2Model ----
(***************************************************************************)
(* A model of configure_intl (node_configure/util.py): the selection,      *)
(* acquisition, verification and materialisation of the ICU dependency.    *)
(*                                                                         *)
(* One run of configure_intl is a sequential pipeline; pc is the position  *)
(* of the run.  The options and the file-system objects the run mutates    *)
(* (deps/icu, deps/icu-tmp, the download path, icu_config.gypi) are state  *)
(* from Init on.  Everything the run only reads from its environment (the  *)
(* canned tree's README, the kind of --with-icu-source, the manifest, the  *)
(* answer of pkg-config, the header, the data files, sys.byteorder, the    *)
(* outcome of a retrieval or an extraction) is drawn with \E by the step   *)
(* that reads it and kept in the variable the code keeps it in.            *)
(***************************************************************************)
EXTENDS Integers, Sequences, FiniteSets, TLC

VARIABLES
    \* options and arguments
    with_intl,        \* options.with_intl
    have_icu_path,    \* bool(options.with_icu_path)
    with_icu_source,  \* options.with_icu_source, then the local of line 802
    minimum_icu,      \* icu_versions['minimum_icu']
    \* position and outcome of the run
    pc,               \* the step the run is at
    err,              \* the fatal error the run ended with, or "none"
    \* the file system the run mutates
    gypi,             \* icu_config.gypi: "absent", "empty" or "populated"
    dest,             \* deps/icu: the origins of what the directory holds, {} when absent
    tmp,              \* deps/icu-tmp: its entries ("." is the directory), {} when absent
    dl,               \* options.download_path: file name -> "unseen" (the run has
                      \* not looked at the file yet), "absent" or its digest
    \* locals of configure_intl and icu_download
    icu_full_path,    \* "deps/icu" or "deps/icu-small"
    canned,           \* what the README of deps/icu-small says
    src_kind,         \* what with_icu_source turned out to be
    icu_tarball,      \* the archive handed to unpack (line 908..915): its path
                      \* and the name of its top-level entry
    icus,             \* the manifest's records (json.load, line 759)
    idx,              \* the record the loop of line 765 is at
    attemptdownload,  \* nodedownload.candownload (line 764)
    localzip,         \* what icu_download returned
    in_file,          \* uvernum.h as opened at line 952: whether it is a file,
                      \* and its lines; closed again after the loop of line 953
    icu_ver_major,    \* the version token (a string of characters), or None
    icu_endianness,   \* sys.byteorder[0]
    dat,              \* the files present in <icu>/source/data/in
    icu_data_path,    \* the data file whose existence is checked
    \* results
    o,                \* o['variables'] (and what is added to o['libraries'])
    icu_config,       \* icu_config['variables']
    \* the log of the run
    steps,            \* the steps and file-system/network accesses executed
    warned,           \* the warnings issued (warn), in order
    retrieved,        \* the calls of nodedownload.retrievefile, in order: the
                      \* record each was made for (0: --with-icu-source) and
                      \* what was at its target before
    \* a call of glob_to_var
    glob,             \* its arguments, what os.walk and os.path.isfile answer,
                      \* its position and its locals
    \* a second run on what a first run left
    earlier           \* whether the run is the first or the second, and in the
                      \* second what the first read and listed

vars == << with_intl, have_icu_path, with_icu_source, minimum_icu, pc, err,
           gypi, dest, tmp, dl, icu_full_path, canned, src_kind, icu_tarball,
           icus, idx, attemptdownload, localzip, in_file, icu_ver_major,
           icu_endianness, dat, icu_data_path, o, icu_config, steps, warned,
           retrieved, glob, earlier >>

\* every variable but those an action names is left alone
optvars == << with_intl, have_icu_path, minimum_icu >>
fsvars == << gypi, dest, tmp, dl >>
dlvars == << icus, idx, attemptdownload, localzip >>
vervars == << in_file, icu_ver_major >>
datvars == << icu_endianness, dat, icu_data_path >>

-----------------------------------------------------------------------------
\* Bounds of the model.

\* the most lines of uvernum.h the model distinguishes
MaxLines == 2
\* the most records of the manifest (current_ver.dep)
MaxRecords == 2
\* the most files of one directory os.walk lists
MaxFiles == 2

-----------------------------------------------------------------------------
\* Strings the code parses, as sequences of characters.

Digits == {"0", "1", "2", "3", "4", "5", "6", "7", "8", "9"}

DigitVal(c) ==
    CASE c = "0" -> 0 [] c = "1" -> 1 [] c = "2" -> 2 [] c = "3" -> 3
      [] c = "4" -> 4 [] c = "5" -> 5 [] c = "6" -> 6 [] c = "7" -> 7
      [] c = "8" -> 8 [] c = "9" -> 9

\* int(s) of Python for a string of decimal digits
RECURSIVE int(_)
int(s) ==
    IF Len(s) = 0 THEN 0
    ELSE 10 * int(SubSeq(s, 1, Len(s) - 1)) + DigitVal(s[Len(s)])

\* whether int(s) returns (it raises ValueError otherwise)
IsNumeral(s) == Len(s) > 0 /\ \A i \in 1..Len(s) : s[i] \in Digits

\* s.split('.')[0]: the characters before the first '.'
RECURSIVE SplitDotFirst(_)
SplitDotFirst(s) ==
    IF Len(s) = 0 \/ s[1] = "." THEN << >>
    ELSE << s[1] >> \o SplitDotFirst(Tail(s))

\* Python's None where a string is expected (no string of the model equals it)
None == << "None" >>

\* the version tokens the model draws from
Tokens == { <<"6", "0">>, <<"6", "7">> }
\* the minimum versions the model draws from
Minimums == { 60, 67 }

\* what pkg-config --modversion icu-i18n may print
ModVersions == { <<"6", "0", ".", "2">>, <<"6", "7", ".", "1">>, <<"6", "7">> }

\* digests of files and expected hashes of records
Digests == { "h1", "h2" }
\* the local file names (url.split('/')[-1]) of the manifest's records
DlNames == { "f1", "f2" }
\* a manifest record: the local name of its url and what findHash returns
\* for it ("nohash" when the record has no recognised hash field)
Records == [ name : DlNames, expect : Digests \cup {"nohash"} ]
\* the manifests json.load may return
Manifests == UNION { [ 1..n -> Records ] : n \in 0..MaxRecords }

\* a line of uvernum.h: one the pattern of line 950 does not match, or one
\* it matches with the token it captures
Lines == { [ define |-> FALSE, tok |-> << >> ] }
           \cup { [ define |-> TRUE, tok |-> t ] : t \in Tokens }
\* no header is open
closed == [ isfile |-> FALSE, lines |-> << >> ]

\* the headers: no file at all, or a file and its lines
Headers == { closed }
             \cup { [ isfile |-> TRUE, lines |-> l ] :
                      l \in UNION { [ 1..n -> Lines ] : n \in 0..MaxLines } }

\* the entries of <icu>/source/data/in: icudt<ver>l.dat, its .bz2, and
\* icudt<ver>b.dat
DataFiles == { "l.dat", "l.dat.bz2", "b.dat" }

-----------------------------------------------------------------------------
\* The state before configure_intl is called.

o_init ==
    [ v8_enable_i18n_support |-> "unset", icu_small |-> "unset",
      icu_gyp_path |-> "unset", icu_path |-> "unset",
      icu_ver_major |-> None, icu_endianness |-> "unset",
      icu_data_in |-> "unset", libraries |-> "unset" ]

icu_config_init == [ icu_full_canned |-> FALSE, icu_src |-> "unset" ]

\* line 908: icu_tarball = None
no_tarball == [ path |-> "unset", top |-> "unset" ]

\* the top-level entry of an archive: the directory icu, or another entry
TopEntries == { "icu", "other" }

\* the run is the first one
no_earlier ==
    [ run |-> 1, source |-> "unset", canned |-> "unread",
      src_kind |-> "unread", top |-> "unset", ver |-> None, dat |-> {},
      e |-> "unset", icu_src |-> "unset", steps |-> {} ]

\* what a step may read from the environment: any of all in a first run;
\* in a second run, with nothing changed outside, what the first run read
Same(field, all) == IF earlier.run = 2 THEN { earlier[field] } ELSE all

\* the outcomes of a retrieval or an extraction: any of all in a first
\* run; in a second run the outcome the first, successful run had
SameOutcome(was, all) == IF earlier.run = 2 THEN { was } ELSE all

\* no call of glob_to_var is looked at
glob_idle ==
    [ pc |-> "idle", walk |-> << >>, patch_dir |-> "", patchfiles |-> {},
      ent |-> 0, i |-> 0, list |-> << >>, info |-> 0 ]

Init ==
    /\ glob = glob_idle
    /\ earlier = no_earlier
    /\ with_intl \in { "None", "none", "small-icu", "full-icu", "system-icu" }
    /\ have_icu_path \in BOOLEAN
    /\ with_icu_source \in { "unset", "deps/icu", "other" }
    /\ minimum_icu \in Minimums
    /\ pc = "start"
    /\ err = "none"
    /\ gypi = "absent"
    /\ dest \in { {}, {"old"} }
    /\ tmp \in { {}, {".", "icu@stale"} }
    /\ dl = [ n \in DlNames |-> "unseen" ]
    /\ icu_full_path = "deps/icu"
    /\ canned = "unread"
    /\ src_kind = "unread"
    /\ icu_tarball = no_tarball
    /\ icus = << >>
    /\ idx = 0
    /\ attemptdownload = FALSE
    /\ localzip = "unset"
    /\ in_file = closed
    /\ icu_ver_major = None
    /\ icu_endianness = "unset"
    /\ dat = {}
    /\ icu_data_path = "unset"
    /\ o = o_init
    /\ icu_config = icu_config_init
    /\ steps = {}
    /\ warned = << >>
    /\ retrieved = << >>

-----------------------------------------------------------------------------
\* Helpers of the actions.

\* error(msg): the message is printed and the process exits (sys.exit(1))
error(kind) ==
    /\ pc' = "error"
    /\ err' = kind

\* an exception no handler catches ends the process as well
raise(kind) ==
    /\ pc' = "crash"
    /\ err' = kind

\* warn(msg)
warn(kind) == warned' = Append(warned, kind)

\* write with the file opened 'r+': an absent file is not created
write_existing(data) == gypi' = IF gypi = "absent" THEN "absent" ELSE data

\* write(filename, data, options): open(filename, 'w+') creates or truncates
write(data) == gypi' = data

-----------------------------------------------------------------------------
\* configure_intl, lines 755..852: the placeholder and the mode decision.

\* lines 755..799: the empty icu_config.gypi, and icu_small = 'false'
WritePlaceholder ==
    /\ pc = "start"
    /\ write("empty")
    /\ o' = [ o EXCEPT !.icu_small = "false" ]
    /\ steps' = steps \cup {"write_gypi"}
    /\ pc' = "icu_path"
    /\ UNCHANGED << optvars, earlier, retrieved, glob, with_icu_source, err, dest, tmp, dl,
                    icu_full_path, canned, src_kind, icu_tarball, dlvars,
                    vervars, datvars, icu_config, warned >>

\* lines 801..805: --with-icu-path together with --with-intl
ConfigConflict ==
    /\ pc = "icu_path"
    /\ have_icu_path /\ with_intl # "none"
    /\ error("ConfigConflict")
    /\ UNCHANGED << optvars, earlier, retrieved, glob, with_icu_source, fsvars, icu_full_path, canned,
                    src_kind, icu_tarball, dlvars, vervars, datvars, o,
                    icu_config, steps, warned >>

\* lines 806..811 tested before lines 804..805
ExplicitPathFirst ==
    /\ pc = "icu_path"
    /\ have_icu_path
    /\ o' = [ o EXCEPT !.v8_enable_i18n_support = "1",
                       !.icu_gyp_path = "with_icu_path" ]
    /\ pc' = "done"
    /\ UNCHANGED << optvars, earlier, retrieved, glob, with_icu_source, err, fsvars, icu_full_path,
                    canned, src_kind, icu_tarball, dlvars, vervars, datvars,
                    icu_config, steps, warned >>

\* lines 806..811: Chromium .gyp mode
ExplicitPath ==
    /\ pc = "icu_path"
    /\ ~(have_icu_path /\ with_intl # "none")
    /\ have_icu_path
    /\ o' = [ o EXCEPT !.v8_enable_i18n_support = "1",
                       !.icu_gyp_path = "with_icu_path" ]
    /\ pc' = "done"
    /\ UNCHANGED << optvars, earlier, retrieved, glob, with_icu_source, err, fsvars, icu_full_path,
                    canned, src_kind, icu_tarball, dlvars, vervars, datvars,
                    icu_config, steps, warned >>

\* lines 814..816 without the return of line 816
DisabledFallsThrough ==
    /\ pc = "icu_path"
    /\ ~have_icu_path
    /\ with_intl \in { "None", "none" }
    /\ o' = [ o EXCEPT !.v8_enable_i18n_support = "0" ]
    /\ pc' = "canned"
    /\ UNCHANGED << optvars, earlier, retrieved, glob, with_icu_source, err, fsvars, icu_full_path,
                    canned, src_kind, icu_tarball, dlvars, vervars, datvars,
                    icu_config, steps, warned >>

\* lines 814..816: no Intl
Disabled ==
    /\ pc = "icu_path"
    /\ ~have_icu_path
    /\ with_intl \in { "None", "none" }
    /\ o' = [ o EXCEPT !.v8_enable_i18n_support = "0" ]
    /\ pc' = "done"
    /\ UNCHANGED << optvars, earlier, retrieved, glob, with_icu_source, err, fsvars, icu_full_path,
                    canned, src_kind, icu_tarball, dlvars, vervars, datvars,
                    icu_config, steps, warned >>

\* lines 817..825 without line 820
SmallIcuNoFlag ==
    /\ pc = "icu_path"
    /\ ~have_icu_path
    /\ with_intl = "small-icu"
    /\ o' = [ o EXCEPT !.v8_enable_i18n_support = "1" ]
    /\ pc' = "canned"
    /\ UNCHANGED << optvars, earlier, retrieved, glob, with_icu_source, err, fsvars, icu_full_path,
                    canned, src_kind, icu_tarball, dlvars, vervars, datvars,
                    icu_config, steps, warned >>

\* lines 817..825: small ICU
SmallIcu ==
    /\ pc = "icu_path"
    /\ ~have_icu_path
    /\ with_intl = "small-icu"
    /\ o' = [ o EXCEPT !.v8_enable_i18n_support = "1", !.icu_small = "true" ]
    /\ pc' = "canned"
    /\ UNCHANGED << optvars, earlier, retrieved, glob, with_icu_source, err, fsvars, icu_full_path,
                    canned, src_kind, icu_tarball, dlvars, vervars, datvars,
                    icu_config, steps, warned >>

\* lines 826..828: full ICU
FullIcu ==
    /\ pc = "icu_path"
    /\ ~have_icu_path
    /\ with_intl = "full-icu"
    /\ o' = [ o EXCEPT !.v8_enable_i18n_support = "1" ]
    /\ pc' = "canned"
    /\ UNCHANGED << optvars, earlier, retrieved, glob, with_icu_source, err, fsvars, icu_full_path,
                    canned, src_kind, icu_tarball, dlvars, vervars, datvars,
                    icu_config, steps, warned >>

\* the version gate with <= for <
TooOldOrEqual(ver, minimum) == int(ver) <= minimum

\* the version gate of lines 839 and 959
TooOld(ver, minimum) == int(ver) < minimum

\* lines 829..852: ICU from pkg-config.  found is pkgicu[0] being truthy,
\* icuversion what --modversion printed.
SystemIcu ==
    /\ pc = "icu_path"
    /\ ~have_icu_path
    /\ with_intl = "system-icu"
    /\ steps' = steps \cup {"pkg-config"}
    /\ \E found \in SameOutcome(TRUE, BOOLEAN),
          icuversion \in { v \in ModVersions :
                             SplitDotFirst(v) \in Same("ver", Tokens) } :
         LET major == SplitDotFirst(icuversion)
             o1 == [ o EXCEPT !.v8_enable_i18n_support = "1" ]
             o2 == [ o1 EXCEPT !.icu_ver_major = major ]
         IN
         IF ~found
         THEN /\ error("MissingSystemDependency")
              /\ o' = o1
              /\ UNCHANGED icu_ver_major
         ELSE /\ icu_ver_major' = major
              /\ IF ~IsNumeral(major)
                 THEN raise("ValueError") /\ o' = o2
                 ELSE IF TooOld(major, minimum_icu)
                 THEN error("VersionTooOld") /\ o' = o2
                 ELSE /\ pc' = "done"
                      /\ err' = err
                      /\ o' = [ o2 EXCEPT !.libraries = "system",
                                          !.icu_gyp_path = "tools/icu/icu-system.gyp" ]
    /\ UNCHANGED << optvars, earlier, retrieved, glob, with_icu_source, fsvars, icu_full_path, canned,
                    src_kind, icu_tarball, dlvars, in_file, datvars, icu_config,
                    warned >>

-----------------------------------------------------------------------------
\* configure_intl, lines 854..926: the candidate locations and
\* --with-icu-source.

\* os.path.isdir(icu_full_path).  deps/icu-small is the chosen path only
\* after its README was found in it (line 868), and the run never removes it.
IsDir(path) == IF path = "deps/icu-small" THEN TRUE ELSE dest # {}

\* lines 854..892 with a redundant --with-icu-source warned about but kept
ProbeCannedKeepSource ==
    /\ pc = "canned"
    /\ \E readme \in Same("canned", { "none", "small", "full" }) :
         /\ canned' = readme
         /\ IF with_icu_source = "unset" /\ readme = "full"
            THEN /\ icu_full_path' = "deps/icu-small"
                 /\ icu_config' = [ icu_config EXCEPT !.icu_full_canned = TRUE ]
                 /\ warned' = warned
            ELSE /\ UNCHANGED << icu_full_path, icu_config >>
                 /\ warned' = warned
                       \o (IF readme = "small" THEN <<"canned_small">> ELSE << >>)
                       \o (IF with_icu_source = "deps/icu"
                           THEN <<"redundant_source">> ELSE << >>)
    /\ steps' = steps \cup {"probe_canned"}
    /\ pc' = "source"
    /\ UNCHANGED << optvars, earlier, retrieved, glob, with_icu_source, err,
                    fsvars, src_kind, icu_tarball, dlvars, vervars, datvars, o >>

\* lines 854..892: the canned tree and a redundant --with-icu-source.
\* readme is which README file deps/icu-small holds.
ProbeCanned ==
    /\ pc = "canned"
    /\ \E readme \in Same("canned", { "none", "small", "full" }) :
         /\ canned' = readme
         /\ IF with_icu_source = "unset" /\ readme = "full"
            THEN /\ icu_full_path' = "deps/icu-small"
                 /\ icu_config' = [ icu_config EXCEPT !.icu_full_canned = TRUE ]
                 /\ UNCHANGED with_icu_source
                 /\ warned' = warned
            ELSE /\ UNCHANGED << icu_full_path, icu_config >>
                 /\ IF with_icu_source = "deps/icu"
                    THEN /\ with_icu_source' = "unset"
                         /\ warned' = warned
                               \o (IF readme = "small" THEN <<"canned_small">> ELSE << >>)
                               \o <<"redundant_source">>
                    ELSE /\ UNCHANGED with_icu_source
                         /\ warned' = warned
                               \o (IF readme = "small" THEN <<"canned_small">> ELSE << >>)
    /\ steps' = steps \cup {"probe_canned"}
    /\ pc' = "source"
    /\ UNCHANGED << optvars, earlier, retrieved, glob, err, fsvars, src_kind, icu_tarball, dlvars,
                    vervars, datvars, o >>

\* line 893, with_icu_source unset
NoSource ==
    /\ pc = "source"
    /\ with_icu_source = "unset"
    /\ pc' = "locate"
    /\ UNCHANGED << optvars, earlier, retrieved, glob, with_icu_source, err, fsvars, icu_full_path,
                    canned, src_kind, icu_tarball, dlvars, vervars, datvars,
                    o, icu_config, steps, warned >>

\* a rmtree that removes nothing
rmtree_nothing(d) == d

\* shutil.rmtree(path): the directory and all it holds are gone
rmtree(d) == {}

\* os.mkdir(path)
mkdir(d) == d \cup {"."}

\* lines 894..896 left out: the old tree stays
KeepOldSource(d) == d

\* lines 894..896: the old tree at icu_full_path is deleted if there is one
DeleteOldSource(d) == IF d # {} THEN rmtree(d) ELSE d

\* lines 893..901: with_icu_source is a directory, copied to icu_full_path
CopySourceDir ==
    /\ pc = "source"
    /\ with_icu_source # "unset"
    /\ "dir" \in Same("src_kind", { "dir", "file", "url" })
    /\ src_kind' = "dir"
    /\ dest' = DeleteOldSource(dest) \cup {"srcdir"}
    /\ steps' = steps \cup (IF dest # {} THEN {"rmtree_dest"} ELSE {})
                      \cup {"copytree"}
    /\ pc' = "locate"
    /\ UNCHANGED << optvars, earlier, retrieved, glob, with_icu_source, err, gypi, tmp, dl,
                    icu_full_path, canned, icu_tarball, dlvars, vervars,
                    datvars, o, icu_config, warned >>

\* lines 905..907 without the rmtree of line 906: what is in icu_tmp_path
\* stays
FreshTmpKeep(t) == mkdir(t)

\* lines 905..907: rmtree of an existing icu_tmp_path, then mkdir
FreshTmp(t) == mkdir(IF t # {} THEN rmtree(t) ELSE t)

\* lines 893..907: with_icu_source is no directory; the temporary area
SetUpTmp ==
    /\ pc = "source"
    /\ with_icu_source # "unset"
    /\ Same("src_kind", { "dir", "file", "url" }) # {"dir"}
    /\ src_kind' = "notdir"
    /\ dest' = DeleteOldSource(dest)
    /\ tmp' = FreshTmp(tmp)
    /\ steps' = steps \cup (IF dest # {} THEN {"rmtree_dest"} ELSE {})
                      \cup (IF tmp # {} THEN {"rmtree_tmp"} ELSE {})
                      \cup {"mkdir_tmp"}
    /\ pc' = "tarball"
    /\ UNCHANGED << optvars, earlier, retrieved, glob, with_icu_source, err, gypi, dl, icu_full_path,
                    canned, icu_tarball, dlvars, vervars, datvars, o,
                    icu_config, warned >>

\* lines 908..911: with_icu_source is a local file
UseLocalArchive ==
    /\ pc = "tarball"
    /\ "file" \in Same("src_kind", { "dir", "file", "url" })
    /\ src_kind' = "file"
    /\ \E top \in Same("top", TopEntries) :
         icu_tarball' = [ path |-> "with_icu_source", top |-> top ]
    /\ pc' = "unpack"
    /\ UNCHANGED << optvars, earlier, retrieved, glob, with_icu_source, err, fsvars, icu_full_path,
                    canned, dlvars, vervars, datvars, o, icu_config, steps,
                    warned >>

\* lines 912..915: with_icu_source is taken as a URL and retrieved into
\* icu_tmp_path; the retrieval succeeds or ends the run with an exception
RetrieveSource ==
    /\ pc = "tarball"
    /\ "url" \in Same("src_kind", { "dir", "file", "url" })
    /\ src_kind' = "url"
    /\ steps' = steps \cup {"retrieve"}
    /\ retrieved' = Append(retrieved, [ rec |-> 0, had |-> "absent" ])
    /\ \E ok \in SameOutcome(TRUE, BOOLEAN), top \in Same("top", TopEntries) :
         IF ok
         THEN /\ tmp' = tmp \cup {"tarball"}
              /\ icu_tarball' = [ path |-> "icu-tmp/local", top |-> top ]
              /\ pc' = "unpack"
              /\ err' = err
         ELSE /\ raise("FetchFailed")
              /\ UNCHANGED << tmp, icu_tarball >>
    /\ UNCHANGED << optvars, earlier, glob, with_icu_source, gypi, dest, dl,
                    icu_full_path, canned, dlvars, vervars, datvars, o,
                    icu_config, warned >>

\* the origins of the "icu" entries of a directory's listing
IcuOf(t) == { "stale" : x \in t \cap {"icu@stale"} }
              \cup { "archive" : x \in t \cap {"icu@archive"} }

\* a rename of icu_tmp_path itself: its entries, the directory icu among
\* them, come to lie in icu_full_path
rename_parent(entries) == entries \ {"."}

\* line 921, os.rename(tmp_icu, icu_full_path): the directory icu of
\* icu_tmp_path becomes icu_full_path, so what it holds lies directly in
\* icu_full_path
rename(entries) == IcuOf(entries)

\* lines 917..926: the archive is extracted into icu_tmp_path (the
\* extraction raises, or leaves the archive's top-level entry there: an
\* "icu" directory or something else); tmp/icu is renamed to icu_full_path
\* and the temporary area is removed
UnpackSource ==
    /\ pc = "unpack"
    /\ steps' = steps \cup {"unpack"}
    /\ \E raises \in SameOutcome(FALSE, BOOLEAN) :
         LET unpacked == tmp \cup { icu_tarball.top \o "@archive" }
         IN
         IF raises
         THEN /\ raise("UnpackError")
              /\ UNCHANGED << dest, tmp >>
         ELSE IF IcuOf(unpacked) # {}
         THEN /\ dest' = dest \cup rename(unpacked)
              /\ tmp' = rmtree(unpacked \ {"icu@stale", "icu@archive"})
              /\ pc' = "locate"
              /\ err' = err
         ELSE /\ tmp' = rmtree(unpacked)
              /\ error("UnpackFailed")
              /\ UNCHANGED dest
    /\ UNCHANGED << optvars, earlier, retrieved, glob, with_icu_source, gypi, dl, icu_full_path, canned,
                    src_kind, icu_tarball, dlvars, vervars, datvars, o,
                    icu_config, warned >>

-----------------------------------------------------------------------------
\* configure_intl, lines 928..943, and icu_download, lines 756..789.

\* lines 928..934 without the test of line 932: icu_download is called
\* whether or not ICU is there
LocateAndDownload ==
    /\ pc = "locate"
    /\ o' = [ o EXCEPT !.icu_gyp_path = "tools/icu/icu-generic.gyp",
                       !.icu_path = icu_full_path ]
    /\ pc' = "download"
    /\ UNCHANGED << optvars, earlier, retrieved, glob, with_icu_source, err,
                    fsvars, icu_full_path, canned, src_kind, icu_tarball,
                    dlvars, vervars, datvars, icu_config, steps, warned >>

\* lines 928..932: the .gyp to use, and whether ICU is already there
Locate ==
    /\ pc = "locate"
    /\ o' = [ o EXCEPT !.icu_gyp_path = "tools/icu/icu-generic.gyp",
                       !.icu_path = icu_full_path ]
    /\ pc' = IF IsDir(icu_full_path) THEN "check_dir" ELSE "download"
    /\ UNCHANGED << optvars, earlier, retrieved, glob, with_icu_source, err, fsvars, icu_full_path,
                    canned, src_kind, icu_tarball, dlvars, vervars, datvars,
                    icu_config, steps, warned >>

\* lines 757..764: the manifest is loaded, the download path must be
\* writable, and candownload tells whether retrieval may be attempted
DlOpen ==
    /\ pc = "download"
    /\ \E m \in Manifests, writable \in BOOLEAN, can \in BOOLEAN :
         /\ icus' = m
         /\ IF ~writable
            THEN /\ error("DownloadPathNotWritable")
                 /\ UNCHANGED << attemptdownload, idx >>
            ELSE /\ attemptdownload' = can
                 /\ idx' = 1
                 /\ pc' = "dl_loop"
                 /\ err' = err
    /\ UNCHANGED << optvars, earlier, retrieved, glob, with_icu_source, fsvars, icu_full_path, canned,
                    src_kind, icu_tarball, localzip, vervars, datvars, o,
                    icu_config, steps, warned >>

\* a record without a hash taken like any other
NoHashIgnored(expectHash) == FALSE

\* line 768, not expectHash: findHash found no recognised hash field
NoHash(expectHash) == expectHash = "nohash"

\* line 784 taking any file that is there
HashAny(expectHash, gotHash) == TRUE

\* line 784: the comparison of the expected with the computed digest
HashMatches(expectHash, gotHash) == expectHash = gotHash

\* lines 775..776 retrieving whenever retrieval is allowed
RetrieveAlways(seen, attempt) == attempt

\* lines 775..776: retrievefile is called when targetfile is no file and
\* retrieval may be attempted
ShouldRetrieve(seen, attempt) == seen = "absent" /\ attempt

\* lines 765..788: one record of the manifest.  found is what isfile of
\* line 775 sees the first time the run looks at targetfile (a file left by
\* an earlier run, with its digest, or nothing); served is what a retrieval
\* leaves at targetfile: a file with that digest, or nothing.
DlRecord ==
    /\ pc = "dl_loop"
    /\ idx <= Len(icus)
    /\ LET icu == icus[idx]
           targetfile == icu.name
       IN
       IF NoHash(icu.expect)
       THEN /\ error("NoIntegrityData")
            /\ UNCHANGED << dl, idx, localzip, steps, warned, retrieved >>
       ELSE \E found \in Digests \cup {"absent"},
               served \in Digests \cup {"absent"} :
            LET seen == IF dl[targetfile] = "unseen" THEN found
                                                      ELSE dl[targetfile]
                fetch == ShouldRetrieve(seen, attemptdownload)
                now == IF fetch THEN served ELSE seen
                steps1 == steps \cup (IF fetch THEN {"download"} ELSE {})
            IN
            /\ dl[targetfile] = "unseen" \/ found = "absent"
            /\ fetch \/ served = "absent"
            /\ dl' = [ dl EXCEPT ![targetfile] = now ]
            /\ retrieved' = IF fetch
                             THEN Append(retrieved, [ rec |-> idx, had |-> seen ])
                             ELSE retrieved
            /\ IF now = "absent"
               THEN /\ idx' = idx + 1
                    /\ steps' = steps1
                    /\ UNCHANGED << pc, err, localzip, warned >>
               ELSE /\ steps' = steps1 \cup {"verify"}
                    /\ IF HashMatches(icu.expect, now)
                       THEN /\ localzip' = targetfile
                            /\ pc' = "dl_return"
                            /\ UNCHANGED << err, idx, warned >>
                       ELSE /\ warn("mismatch")
                            /\ idx' = idx + 1
                            /\ UNCHANGED << pc, err, localzip >>
    /\ UNCHANGED << optvars, earlier, glob, with_icu_source, gypi, dest, tmp,
                    icu_full_path, canned, src_kind, icu_tarball, icus,
                    attemptdownload, vervars, datvars, o, icu_config >>

\* line 789: no record verified, icu_download returns None
DlExhausted ==
    /\ pc = "dl_loop"
    /\ idx > Len(icus)
    /\ localzip' = "None"
    /\ pc' = "dl_return"
    /\ UNCHANGED << optvars, earlier, retrieved, glob, with_icu_source, err, fsvars, icu_full_path,
                    canned, src_kind, icu_tarball, icus, idx, attemptdownload,
                    vervars, datvars, o, icu_config, steps, warned >>

\* the locals of icu_download are gone when it has returned
DlLocalsGone ==
    /\ icus' = << >>
    /\ idx' = 0
    /\ attemptdownload' = FALSE

\* lines 934..938, icu_download returned None
DlNone ==
    /\ pc = "dl_return"
    /\ localzip = "None"
    /\ DlLocalsGone
    /\ warn("no_icu")
    /\ pc' = "check_dir"
    /\ UNCHANGED << optvars, earlier, retrieved, glob, with_icu_source, err, fsvars, icu_full_path,
                    canned, src_kind, icu_tarball, localzip, vervars, datvars,
                    o, icu_config, steps >>

\* lines 934..936: the verified archive is extracted into deps (the
\* extraction raises, or leaves the archive's entries there: an "icu"
\* directory or something else)
DlUnpack ==
    /\ pc = "dl_return"
    /\ localzip # "None"
    /\ DlLocalsGone
    /\ steps' = steps \cup {"unpack"}
    /\ \E outcome \in { "raises", "icu", "other" } :
         IF outcome = "raises"
         THEN /\ raise("UnpackError")
              /\ UNCHANGED dest
         ELSE /\ dest' = IF outcome = "icu" THEN dest \cup {"zip"} ELSE dest
              /\ pc' = "check_dir"
              /\ err' = err
    /\ UNCHANGED << optvars, earlier, retrieved, glob, with_icu_source, gypi, tmp, dl, icu_full_path,
                    canned, src_kind, icu_tarball, localzip, vervars, datvars,
                    o, icu_config, warned >>

\* lines 939..943 without the error: the run goes on whether or not ICU is
\* at icu_full_path
CheckDirSkipped ==
    /\ pc = "check_dir"
    /\ pc' = "version"
    /\ UNCHANGED << optvars, earlier, retrieved, glob, with_icu_source, err,
                    fsvars, icu_full_path, canned, src_kind, icu_tarball,
                    dlvars, vervars, datvars, o, icu_config, steps, warned >>

\* lines 939..943: ICU must be at icu_full_path by now
CheckDir ==
    /\ pc = "check_dir"
    /\ IF IsDir(icu_full_path)
       THEN pc' = "version" /\ err' = err
       ELSE error("IcuMissing")
    /\ UNCHANGED << optvars, earlier, retrieved, glob, with_icu_source, fsvars, icu_full_path, canned,
                    src_kind, icu_tarball, dlvars, vervars, datvars, o,
                    icu_config, steps, warned >>

-----------------------------------------------------------------------------
\* configure_intl, lines 944..961: the version of the ICU found.

\* lines 949..956: the loop over the lines of uvernum.h, from line i on,
\* with cur the value of icu_ver_major so far
RECURSIVE ScanVersion(_, _, _)
ScanVersion(lines, i, cur) ==
    IF i > Len(lines) THEN cur
    ELSE ScanVersion(lines, i + 1,
                     IF lines[i].define THEN lines[i].tok ELSE cur)

\* lines 946..956: uvernum.h must be a file; it is opened and scanned
ReadHeader ==
    /\ pc = "version"
    /\ steps' = steps \cup {"version-check"}
    /\ \E h \in { hh \in Headers :
                    earlier.run = 2
                      => hh.isfile /\ ScanVersion(hh.lines, 1, None) = earlier.ver } :
         IF ~h.isfile
         THEN /\ error("HeaderMissing")
              /\ UNCHANGED << in_file, icu_ver_major >>
         ELSE /\ in_file' = h
              /\ icu_ver_major' = ScanVersion(h.lines, 1, None)
              /\ pc' = "gate"
              /\ err' = err
    /\ UNCHANGED << optvars, earlier, retrieved, glob, with_icu_source, fsvars, icu_full_path, canned,
                    src_kind, icu_tarball, dlvars, datvars, o, icu_config,
                    warned >>

\* lines 957..961: a version must have been found and be recent enough
VersionGate ==
    /\ pc = "gate"
    /\ in_file' = closed
    /\ IF icu_ver_major = None \/ icu_ver_major = << >>
       THEN error("VersionNotFound")
       ELSE IF ~IsNumeral(icu_ver_major)
       THEN raise("ValueError")
       ELSE IF TooOld(icu_ver_major, minimum_icu)
       THEN error("VersionTooOld")
       ELSE pc' = "data" /\ err' = err
    /\ UNCHANGED << optvars, earlier, retrieved, glob, with_icu_source, fsvars, icu_full_path, canned,
                    src_kind, icu_tarball, dlvars, icu_ver_major, datvars, o,
                    icu_config, steps, warned >>

-----------------------------------------------------------------------------
\* configure_intl, lines 962..1000: the data file.

\* a string of characters as one string
RECURSIVE Cat(_)
Cat(s) == IF Len(s) = 0 THEN "" ELSE Head(s) \o Cat(Tail(s))

\* os.path.join
join(a, b) == a \o "/" \o b

\* line 862
icu_tmp_path == join("deps", "icu-tmp")

\* os.path.isfile(p) for a data file path p, with d the kinds of data file
\* present in <icu_full_path>/source/data/in for version ver and t the
\* entries of icu_tmp_path
isfile(p, ver, d, t) ==
    \/ \E k \in d :
         p = join(join(icu_full_path, "source/data/in"), "icudt" \o ver \o k)
    \/ \E e \in t \ {"."} : p = join(icu_tmp_path, e)

\* what lines 965..992 compute: the temporary area after a decompression,
\* icu_data_in and the icu_data_path that line 993 checks
DataSelection(ver, e, d, t) ==
    LET icu_data_file_l == "icudt" \o ver \o "l" \o ".dat"
        icu_data_file == "icudt" \o ver \o e \o ".dat"
        path0 == join(join(icu_full_path, "source/data/in"), icu_data_file_l)
        compressed_data == path0 \o ".bz2"
        decompress == ~isfile(path0, ver, d, t)
                        /\ isfile(compressed_data, ver, d, t)
        t1 == IF decompress THEN FreshTmp(t) \cup {icu_data_file_l} ELSE t
        path1 == IF decompress THEN join(icu_tmp_path, icu_data_file_l)
                               ELSE path0
        data_in == join(join("..", ".."), path1)
        path2 == IF ~isfile(path1, ver, d, t1) /\ e # "l"
                 THEN join(join(icu_full_path, "source/data/in"), icu_data_file)
                 ELSE path1
    IN [ tmp |-> t1, icu_data_in |-> data_in, icu_data_path |-> path2,
         decompressed |-> decompress,
         found |-> isfile(path2, ver, d, t1) ]

\* lines 1003..1017: the lists icu_src_* that glob_to_var returns are made
\* of the path of the ICU tree, of the files of that tree (those of the
\* canned tree, or those deps/icu got from where d says) and of the patch
\* directory of the version
icu_src(path, d, ver) ==
    LET tree == IF path = "deps/icu-small" THEN "canned"
                ELSE IF d = {} THEN "nothing"
                ELSE CHOOSE x \in d : TRUE
    IN "../../" \o path \o "/source/*:" \o tree
         \o ":patches/" \o ver \o "/source/*"

\* lines 962..1046: sys.byteorder and the files of source/data/in are read,
\* the .bz2 is decompressed into icu_tmp_path if need be, and the data file
\* must exist; then the source lists are made and the populated
\* icu_config.gypi is written
SelectData ==
    /\ pc = "data"
    /\ \E e \in Same("e", { "l", "b" }), d \in Same("dat", SUBSET DataFiles) :
         LET ver == Cat(icu_ver_major)
             sel == DataSelection(ver, e, d, tmp)
             o1 == [ o EXCEPT !.icu_ver_major = icu_ver_major,
                              !.icu_endianness = e ]
             steps1 == steps \cup {"data-file"}
                         \cup (IF sel.decompressed
                               THEN (IF tmp # {} THEN {"rmtree_tmp"} ELSE {})
                                      \cup {"mkdir_tmp", "decompress"}
                               ELSE {})
         IN
         /\ icu_endianness' = e
         /\ dat' = d
         /\ tmp' = sel.tmp
         /\ icu_data_path' = sel.icu_data_path
         /\ IF ~sel.found
            THEN /\ error("DataFileMissing")
                 /\ o' = o1
                 /\ steps' = steps1
                 /\ UNCHANGED << gypi, icu_config >>
            ELSE /\ o' = [ o1 EXCEPT !.icu_data_in = sel.icu_data_in ]
                 /\ icu_config' =
                      [ icu_config EXCEPT
                          !.icu_src = icu_src(icu_full_path, dest, ver) ]
                 /\ write("populated")
                 /\ steps' = steps1 \cup {"glob", "write_gypi"}
                 /\ pc' = "done"
                 /\ err' = err
    /\ UNCHANGED << optvars, earlier, retrieved, glob, with_icu_source, dest, dl, icu_full_path,
                    canned, src_kind, icu_tarball, dlvars, vervars, warned >>

-----------------------------------------------------------------------------
\* One run of configure_intl.

Next ==
    \/ WritePlaceholder
    \/ ConfigConflict
    \/ ExplicitPath
    \/ Disabled
    \/ SmallIcu
    \/ FullIcu
    \/ SystemIcu
    \/ ProbeCanned
    \/ NoSource
    \/ CopySourceDir
    \/ SetUpTmp
    \/ UseLocalArchive
    \/ RetrieveSource
    \/ UnpackSource
    \/ Locate
    \/ DlOpen
    \/ DlRecord
    \/ DlExhausted
    \/ DlNone
    \/ DlUnpack
    \/ CheckDir
    \/ ReadHeader
    \/ VersionGate
    \/ SelectData

Spec == Init /\ [][Next]_vars

-----------------------------------------------------------------------------
\* configure_intl run a second time.

\* options.with_icu_source as it was given: line 891 clears the local only
source_option ==
    IF \E k \in 1..Len(warned) : warned[k] = "redundant_source"
    THEN "deps/icu"
    ELSE with_icu_source

\* a run has returned from line 1046 or line 852 or line 816; configure_intl
\* is called again with the same options on the file system the run left:
\* the locals and o are new, the files are those of the end of the run
Rerun ==
    /\ pc = "done"
    /\ earlier.run = 1
    /\ earlier' = [ run |-> 2, source |-> source_option, canned |-> canned,
                    src_kind |-> src_kind, top |-> icu_tarball.top,
                    ver |-> icu_ver_major, dat |-> dat, e |-> icu_endianness,
                    icu_src |-> icu_config.icu_src, steps |-> steps ]
    /\ with_icu_source' = source_option
    /\ pc' = "start"
    /\ icu_full_path' = "deps/icu"
    /\ canned' = "unread"
    /\ src_kind' = "unread"
    /\ icu_tarball' = no_tarball
    /\ icus' = << >>
    /\ idx' = 0
    /\ attemptdownload' = FALSE
    /\ localzip' = "unset"
    /\ in_file' = closed
    /\ icu_ver_major' = None
    /\ icu_endianness' = "unset"
    /\ dat' = {}
    /\ icu_data_path' = "unset"
    /\ o' = o_init
    /\ icu_config' = icu_config_init
    /\ steps' = {}
    /\ warned' = << >>
    /\ retrieved' = << >>
    /\ UNCHANGED << optvars, err, fsvars, glob >>

RerunNext ==
    \/ Next
    \/ Rerun

RerunSpec == Init /\ [][RerunNext]_vars

-----------------------------------------------------------------------------
\* glob_to_var, lines 731..748, called on its own.

\* the variables of a run of configure_intl
runvars ==
    << with_intl, have_icu_path, with_icu_source, minimum_icu, pc, err, gypi,
       dest, tmp, dl, icu_full_path, canned, src_kind, icu_tarball, icus, idx,
       attemptdownload, localzip, in_file, icu_ver_major, icu_endianness, dat,
       icu_data_path, o, icu_config, steps, warned, retrieved >>

\* file names, as the characters endswith looks at
FileNames ==
    { <<"a", ".", "c">>, <<"a", ".", "c", "p", "p">>, <<"b", ".", "h">>,
      <<"r", ".", "c", "c">> }

\* the listings of one directory: its files in the order os.walk gives
\* them, no name twice
Listings ==
    { l \in UNION { [ 1..n -> FileNames ] : n \in 0..MaxFiles } :
        \A i, j \in 1..Len(l) : l[i] = l[j] => i = j }

\* what os.walk(dir_all) yields: nothing when dir_all is no directory, else
\* the entry of dir_all and then the entry of a subdirectory if it has one
Walks ==
    { << >> }
      \cup { << [ path |-> "dir_all", files |-> l ] >> : l \in Listings }
      \cup { << [ path |-> "dir_all", files |-> l ],
                [ path |-> "dir_all/sub", files |-> m ] >> :
                l \in Listings, m \in Listings }

\* the arguments of the calls of line 1017 (common, version 67), and of a
\* call without patch directory
dir_base == "tools/icu"
dir_sub == "../../deps/icu/source/common"
PatchDirs == { "", "patches/67/source/common" }

\* str.endswith
endswith(s, suffix) ==
    /\ Len(s) >= Len(suffix)
    /\ SubSeq(s, Len(s) - Len(suffix) + 1, Len(s)) = suffix

\* line 738 without the test for '.h'
IsSourceNoHeader(file) ==
    endswith(file, <<".", "c", "p", "p">>) \/ endswith(file, <<".", "c">>)

\* line 738
IsSource(file) ==
    \/ endswith(file, <<".", "c", "p", "p">>)
    \/ endswith(file, <<".", "c">>)
    \/ endswith(file, <<".", "h">>)

\* '%s/%s' % (a, b)
fmt(a, b) == a \o "/" \o b

\* lines 741..743: a patch directory is given and patchfile is a file
UsePatch(file, patch_dir, patchfiles) ==
    patch_dir # "" /\ file \in patchfiles

\* lines 740..744: the entry listed for a file
srcfile(file, patch_dir, patchfiles) ==
    IF UsePatch(file, patch_dir, patchfiles)
    THEN fmt(patch_dir, Cat(file))
    ELSE fmt(dir_sub, Cat(file))

\* the loop of line 735 going on to the next entry of the walk
no_break(ent, walk) == ent + 1

\* line 747, break: the loop of line 735 is left after its first entry
break(ent, walk) == Len(walk) + 1

\* lines 732..734: the call
GlobCall ==
    /\ glob.pc = "call"
    /\ glob' = [ glob EXCEPT !.pc = "walk", !.list = << >>, !.ent = 1,
                             !.i = 1 ]
    /\ UNCHANGED << runvars, earlier >>

\* lines 737..746: one file of the entry
GlobFile ==
    /\ glob.pc = "walk"
    /\ glob.ent <= Len(glob.walk)
    /\ glob.i <= Len(glob.walk[glob.ent].files)
    /\ LET file == glob.walk[glob.ent].files[glob.i]
       IN glob' =
            [ glob EXCEPT
                !.i = @ + 1,
                !.list = IF IsSource(file)
                         THEN Append(@, srcfile(file, glob.patch_dir,
                                                glob.patchfiles))
                         ELSE @,
                !.info = IF IsSource(file)
                            /\ UsePatch(file, glob.patch_dir, glob.patchfiles)
                         THEN @ + 1 ELSE @ ]
    /\ UNCHANGED << runvars, earlier >>

\* line 747: the files of the entry are done
GlobEntryDone ==
    /\ glob.pc = "walk"
    /\ glob.ent <= Len(glob.walk)
    /\ glob.i > Len(glob.walk[glob.ent].files)
    /\ glob' = [ glob EXCEPT !.ent = break(glob.ent, glob.walk), !.i = 1 ]
    /\ UNCHANGED << runvars, earlier >>

\* line 748
GlobReturn ==
    /\ glob.pc = "walk"
    /\ glob.ent > Len(glob.walk)
    /\ glob' = [ glob EXCEPT !.pc = "return", !.ent = 0, !.i = 0 ]
    /\ UNCHANGED << runvars, earlier >>

GlobInit ==
    /\ glob \in [ pc : {"call"}, walk : Walks, patch_dir : PatchDirs,
                   patchfiles : SUBSET FileNames, ent : {0}, i : {0},
                   list : { << >> }, info : {0} ]
    /\ with_intl = "none"
    /\ have_icu_path = FALSE
    /\ with_icu_source = "unset"
    /\ minimum_icu = 67
    /\ pc = "start"
    /\ err = "none"
    /\ gypi = "absent"
    /\ dest = {}
    /\ tmp = {}
    /\ dl = [ n \in DlNames |-> "unseen" ]
    /\ icu_full_path = "deps/icu"
    /\ canned = "unread"
    /\ src_kind = "unread"
    /\ icu_tarball = no_tarball
    /\ icus = << >>
    /\ idx = 0
    /\ attemptdownload = FALSE
    /\ localzip = "unset"
    /\ in_file = closed
    /\ icu_ver_major = None
    /\ icu_endianness = "unset"
    /\ dat = {}
    /\ icu_data_path = "unset"
    /\ o = o_init
    /\ icu_config = icu_config_init
    /\ steps = {}
    /\ warned = << >>
    /\ retrieved = << >>
    /\ earlier = no_earlier

GlobNext ==
    \/ GlobCall
    \/ GlobFile
    \/ GlobEntryDone
    \/ GlobReturn

GlobSpec == GlobInit /\ [][GlobNext]_vars

-----------------------------------------------------------------------------
\* The properties of the run.

\* --with-icu-path together with a source-acquisition mode
ConflictInputs ==
    have_icu_path /\ with_intl \in { "small-icu", "full-icu", "system-icu" }

ModeDisabled ==
    /\ o.v8_enable_i18n_support = "0" /\ o.icu_small = "false"
    /\ o.icu_gyp_path = "unset" /\ steps = {"write_gypi"}
ModeExplicitPath ==
    /\ o.v8_enable_i18n_support = "1" /\ o.icu_small = "false"
    /\ o.icu_gyp_path = "with_icu_path" /\ steps = {"write_gypi"}
ModeSystemProvided ==
    /\ o.v8_enable_i18n_support = "1" /\ o.icu_small = "false"
    /\ o.icu_gyp_path \in { "unset", "tools/icu/icu-system.gyp" }
    /\ steps = {"write_gypi", "pkg-config"}
ModeSmallBundle ==
    /\ o.v8_enable_i18n_support = "1" /\ o.icu_small = "true"
    /\ o.icu_gyp_path \in { "unset", "tools/icu/icu-generic.gyp" }
    /\ "pkg-config" \notin steps
ModeFullBundle ==
    /\ o.v8_enable_i18n_support = "1" /\ o.icu_small = "false"
    /\ o.icu_gyp_path \in { "unset", "tools/icu/icu-generic.gyp" }
    /\ "pkg-config" \notin steps

\* the modes the variables recorded and the steps executed correspond to
ActiveModes ==
    { m \in { "Disabled", "ExplicitPath", "SystemProvided", "SmallBundle",
              "FullBundle" } :
        CASE m = "Disabled" -> ModeDisabled
          [] m = "ExplicitPath" -> ModeExplicitPath
          [] m = "SystemProvided" -> ModeSystemProvided
          [] m = "SmallBundle" -> ModeSmallBundle
          [] m = "FullBundle" -> ModeFullBundle }

\* the mode the inputs select
SelectedMode ==
    IF have_icu_path THEN "ExplicitPath"
    ELSE CASE with_intl \in { "None", "none" } -> "Disabled"
           [] with_intl = "small-icu" -> "SmallBundle"
           [] with_intl = "full-icu" -> "FullBundle"
           [] with_intl = "system-icu" -> "SystemProvided"

\* C2: for every input for which the run does not abort with
\* ConfigConflict, from the mode decision on the variables recorded
\* (v8_enable_i18n_support, icu_small, icu_gyp_path) and the steps executed
\* correspond to exactly one of the five acquisition modes, the one the
\* inputs select: never to none and never to two.
C2_ExactlyOneMode ==
    pc \notin { "start", "icu_path" } /\ err # "ConfigConflict"
        => ActiveModes = { SelectedMode }

\* C2, witness: a small-icu run has come to its end in the one mode
\* SmallBundle
C2_Witness ==
    pc = "done" /\ with_intl = "small-icu" /\ ActiveModes = {"SmallBundle"}

\* the dependency is disabled
DisabledInputs == ~have_icu_path /\ with_intl \in { "None", "none" }

\* C3, as stated: a disabled run has no file-system side effect at all: the
\* disabled state is recorded in o (v8_enable_i18n_support = 0) and no
\* file is written or removed.
C3_NoFileSystemEffect ==
    DisabledInputs => gypi = "absent" /\ steps = {}

\* C3, amended: a disabled run short-circuits: apart from the write of the
\* empty placeholder icu_config.gypi it has no file-system side effect and
\* no network access; deps/icu, deps/icu-tmp and the download path are left
\* as they were, no download, verify, unpack or version-check step runs, and
\* what is recorded is icu_small = 'false' and v8_enable_i18n_support = 0.
C3_DisabledShortCircuits ==
    /\ [](DisabledInputs =>
            /\ pc \in { "start", "icu_path", "done" }
            /\ steps \subseteq {"write_gypi"}
            /\ pc = "done" =>
                 /\ gypi = "empty"
                 /\ o = [ o_init EXCEPT !.icu_small = "false",
                                        !.v8_enable_i18n_support = "0" ])
    /\ [][DisabledInputs => UNCHANGED << dest, tmp, dl >>]_vars

\* C3, witness: a disabled run has ended where deps/icu and a stale
\* deps/icu-tmp exist
C3_Witness ==
    DisabledInputs /\ pc = "done" /\ dest = {"old"} /\ "icu@stale" \in tmp

\* C4: after the first step of every run icu_config.gypi exists, whatever
\* the mode and however the run ends; the empty placeholder is there when
\* the mode is decided (nothing of the mode is recorded yet), and no later
\* step removes the file.
C4_ConfigArtifactExists ==
    /\ pc # "start" => gypi \in { "empty", "populated" }
    /\ pc = "icu_path" =>
         /\ gypi = "empty"
         /\ o.v8_enable_i18n_support = "unset"
         /\ o.icu_gyp_path = "unset"

\* C4, witness: a disabled run has ended and the placeholder is there
C4_Witness ==
    pc = "done" /\ with_intl = "none" /\ ~have_icu_path /\ gypi = "empty"

\* the token of the first line of a header that the pattern matches, None
\* when no line does
FirstMatch(lines) ==
    IF \E i \in 1..Len(lines) : lines[i].define
    THEN LET first == CHOOSE i \in 1..Len(lines) :
                        /\ lines[i].define
                        /\ \A j \in 1..(i - 1) : ~lines[j].define
         IN lines[first].tok
    ELSE None

\* C5, as stated: the version the gate and the data-file name use is the
\* token of the first line of uvernum.h that matches the
\* U_ICU_VERSION_SHORT pattern, not of any later one.
C5_FirstMatchWins ==
    pc = "gate" => icu_ver_major = FirstMatch(in_file.lines)

\* C6: the run aborts with VersionTooOld if and only if the major version
\* found (in uvernum.h in the bundle modes, in the answer of pkg-config in
\* SystemProvided) is below minimum_icu, a version equal to the minimum
\* passes; and after that abort there is no data-file selection, no source
\* list and no populated icu_config.gypi.
C6_VersionGate ==
    /\ icu_ver_major # None /\ IsNumeral(icu_ver_major) /\ pc # "gate"
         => (err = "VersionTooOld" <=> int(icu_ver_major) < minimum_icu)
    /\ err = "VersionTooOld"
         => /\ pc = "error"
            /\ gypi = "empty"
            /\ steps \cap { "data-file", "decompress", "glob" } = {}
            /\ dat = {} /\ icu_data_path = "unset"
            /\ o.icu_data_in = "unset"
            /\ icu_config.icu_src = "unset"

\* C6, witness: a full-icu run whose header says 60 has aborted with
\* VersionTooOld against the minimum 67
C6_Witness ==
    /\ err = "VersionTooOld" /\ with_intl = "full-icu"
    /\ int(icu_ver_major) = 60 /\ minimum_icu = 67

\* a run in one of the bundle modes
BundleRun == ~have_icu_path /\ with_intl \in { "small-icu", "full-icu" }

\* the path of the decompressed data file, as icu_data_in gives it
DecompressedDataIn ==
    join(join("..", ".."),
         join(icu_tmp_path, "icudt" \o Cat(icu_ver_major) \o "l" \o ".dat"))

\* C7, as stated: a deps/icu-tmp that exists when a bundle run starts has
\* been destroyed on every path through the run, so a run that has come to
\* its end has none of the stale entries left in it.
C7_StaleTmpDestroyed ==
    BundleRun /\ pc = "done" => "icu@stale" \notin tmp

\* C7, amended: a deps/icu-tmp that exists when a bundle run starts is
\* destroyed before the run uses the directory (before an archive source is
\* unpacked and before the .bz2 data file is decompressed); a run that does
\* not use the directory (directory source, canned tree, existing
\* destination, manifest download) leaves it as it was.  In every run no
\* entry of the stale directory becomes part of deps/icu or is referred to
\* by icu_data_in.
C7_StaleTmpNeverUsed ==
    /\ "stale" \notin dest
    /\ "mkdir_tmp" \in steps => "icu@stale" \notin tmp
    /\ "mkdir_tmp" \notin steps => tmp \in { {}, {".", "icu@stale"} }
    /\ icu_ver_major # None /\ o.icu_data_in = DecompressedDataIn
         => "decompress" \in steps /\ "icu@stale" \notin tmp

\* C7, witness: a run that started with a stale deps/icu-tmp has removed
\* it, unpacked an archive source and come to its end
C7_Witness ==
    "rmtree_tmp" \in steps /\ pc = "done" /\ dest = {"archive"}

\* C8, as stated: a run that created deps/icu-tmp has deleted it before it
\* ends, so after the run the directory does not exist.
C8_TmpGoneAfterRun ==
    pc \in { "done", "error" } /\ "mkdir_tmp" \in steps => tmp = {}

\* C8, amended: a deps/icu-tmp created for unpacking an archive source is
\* deleted by the same run as soon as the extraction has returned, whether
\* an icu directory came out of it or the run aborts with UnpackFailed; it
\* stays behind only when the retrieval or the extraction itself raises.  A
\* deps/icu-tmp created for decompressing the .bz2 data file is not
\* deleted: after the run it holds the decompressed data file, the one
\* icu_data_in refers to.
C8_TmpLifetime ==
    pc \in { "done", "error", "crash" } /\ "mkdir_tmp" \in steps
      => /\ tmp # {} <=>
              \/ "decompress" \in steps
              \/ pc = "crash" /\ err \in { "FetchFailed", "UnpackError" }
         /\ "decompress" \in steps
              => /\ pc = "done"
                 /\ tmp = { ".", "icudt" \o Cat(icu_ver_major) \o "l" \o ".dat" }
                 /\ o.icu_data_in = DecompressedDataIn

\* C8, witness: a run has created deps/icu-tmp twice, for an archive source
\* and for the .bz2 data file, and come to its end
C8_Witness ==
    /\ pc = "done" /\ src_kind = "file"
    /\ { "unpack", "decompress" } \subseteq steps

\* C9, as stated: the run fails with DataFileMissing only when the target
\* is little-endian and neither icudt<ver>l.dat nor its .bz2 exists; on
\* another endianness the absence of the host-endianness file is not fatal.
C9_MissingOnlyWhenLittle ==
    err = "DataFileMissing"
      => icu_endianness = "l" /\ dat \cap { "l.dat", "l.dat.bz2" } = {}

\* what C10 says of one step of the loop of icu_download over the records:
\* the records are taken in order from the first; the record at idx is
\* returned when its file is there after the step with the expected digest;
\* otherwise it is skipped and the run goes on to the next record.  skipped
\* is what is said of the warnings of a skipped record, given the file.
DlStepInOrder(skipped(_)) ==
    /\ pc = "download" /\ pc' = "dl_loop" => idx' = 1
    /\ pc = "dl_loop" /\ idx <= Len(icus) /\ icus[idx].expect # "nohash"
         => LET r == icus[idx]
                f == dl'[r.name]
            IN /\ icus' = icus
               /\ IF f = r.expect
                  THEN pc' = "dl_return" /\ localzip' = r.name
                         /\ warned' = warned
                  ELSE /\ pc' = "dl_loop" /\ idx' = idx + 1
                       /\ err' = "none" /\ localzip' = localzip
                       /\ skipped(f)
    /\ pc = "dl_loop" /\ pc' = "dl_return" /\ localzip' = "None"
         => idx > Len(icus)

\* every skipped record is warned about
WarnedAlways(f) == Len(warned') > Len(warned)

\* a mismatching record is warned about, a file that is not there is not
WarnedOnMismatch(f) ==
    warned' = IF f = "absent" THEN warned ELSE Append(warned, "mismatch")

\* C10, as stated: the records are tried in manifest order; a mismatching
\* or unobtainable record is not fatal, it is skipped with a warning; the
\* result is the file of the first record whose file exists with the
\* expected digest, and None only when no record verifies.
C10_SkippedWithWarning == [][DlStepInOrder(WarnedAlways)]_vars

\* C10, amended: the records are tried in manifest order; a mismatching
\* record is not fatal, it is skipped with a warning, and a record whose
\* file is not there (not retrieved, or retrieval not allowed) is skipped
\* without one; the result is the file of the first record whose file
\* exists with the expected digest, and None only when no record verifies.
C10_FirstVerifiedRecord ==
    /\ [](pc = "dl_return" /\ localzip # "None"
            => /\ idx \in 1..Len(icus)
               /\ icus[idx].name = localzip
               /\ dl[localzip] = icus[idx].expect)
    /\ [][DlStepInOrder(WarnedOnMismatch)]_vars

\* C10, witness: the first record's file did not have the expected digest
\* and the file of the second record, another file, is returned
C10_Witness ==
    /\ pc = "dl_return" /\ Len(icus) = 2 /\ idx = 2 /\ localzip = icus[2].name
    /\ icus[1].name # icus[2].name
    /\ dl[icus[1].name] \in Digests \ { icus[1].expect }
    /\ warned # << >>

\* the manifest of the run has a record lacking every recognised hash field
HasNoHashRecord == \E i \in 1..Len(icus) : icus[i].expect = "nohash"

\* C11, as stated: a download-mode run whose manifest has a record lacking
\* every recognised hash field fails with NoIntegrityData, wherever that
\* record stands in the manifest; so icu_download does not return for such
\* a manifest.
C11_NoHashAnywhereIsFatal ==
    HasNoHashRecord => pc # "dl_return"

\* C11, amended: when the loop of icu_download comes to a record lacking
\* every recognised hash field (the download path is writable and no record
\* before it verified), the run fails with NoIntegrityData at once,
\* whatever file is or is not at the record's target: the file is not
\* looked at, nothing is retrieved or verified for the record.  A record
\* without a hash that stands after a verifying record is never reached;
\* NoIntegrityData is raised for no other reason.
C11_NoHashReachedIsFatal ==
    /\ [](err = "NoIntegrityData"
            => /\ pc = "error"
               /\ idx \in 1..Len(icus)
               /\ icus[idx].expect = "nohash")
    /\ [][pc = "dl_loop" /\ idx <= Len(icus) /\ icus[idx].expect = "nohash"
            => /\ pc' = "error" /\ err' = "NoIntegrityData"
               /\ UNCHANGED << dl, steps, warned, localzip, dest, tmp >>]_vars

\* C11, witness: the second record has no hash and names the file of the
\* first, which is there and did not verify; the run has failed with
\* NoIntegrityData
C11_Witness ==
    /\ err = "NoIntegrityData" /\ idx = 2
    /\ icus[2].name = icus[1].name
    /\ dl[icus[2].name] \in Digests

\* C12: in one run retrievefile is called at most once for a manifest
\* record and at most once for the source URL, and only where no file was
\* at the target; for a record whose file is in the download path the file
\* is reused as it is.  So a retrieval that failed or brought a mismatching
\* file is not made again in the run.
C12_RetrievedAtMostOnce ==
    /\ [](/\ \A i, j \in 1..Len(retrieved) :
               retrieved[i].rec = retrieved[j].rec => i = j
          /\ \A i \in 1..Len(retrieved) : retrieved[i].had = "absent"
          /\ \A i \in 1..Len(retrieved) :
               retrieved[i].rec # 0 /\ pc = "dl_loop"
                 => retrieved[i].rec < idx)
    /\ [][pc = "dl_loop" /\ idx <= Len(icus)
            /\ dl[icus[idx].name] \in Digests
            => retrieved' = retrieved /\ dl' = dl]_vars

\* C12, witness: the retrieval for the first record brought a file that did
\* not verify; the second record names the same file, and the loop has gone
\* past it without another retrieval
C12_Witness ==
    /\ pc = "dl_loop" /\ idx = 3 /\ Len(icus) >= 2
    /\ icus[1].name = icus[2].name
    /\ retrieved = << [ rec |-> 1, had |-> "absent" ] >>
    /\ dl[icus[1].name] \in Digests

\* C13: whenever the run copies or extracts a source into deps/icu, what
\* was at deps/icu before has been destroyed first: after the copy or the
\* extraction deps/icu holds entries of the new source only, none of the
\* old tree; a tree the run does not replace is left whole.
C13_ReplaceSemantics ==
    /\ [](/\ "copytree" \in steps => dest = {"srcdir"}
          /\ src_kind \in { "file", "url" } /\ "unpack" \in steps
               => dest \in { {}, {"archive"} }
          /\ "old" \in dest
               => dest = {"old"}
                    /\ steps \cap { "rmtree_dest", "copytree", "unpack" } = {})
    /\ [][dest' # dest => "old" \notin dest' /\ Cardinality(dest') <= 1]_vars

\* C13, witness: an old tree was at deps/icu, the run has deleted it and
\* copied the source directory there
C13_Witness ==
    /\ { "rmtree_dest", "copytree" } \subseteq steps
    /\ dest = {"srcdir"} /\ pc = "done"

\* the extraction of the archive source has returned
SourceExtracted ==
    icu_tarball # no_tarball /\ "unpack" \in steps /\ err # "UnpackError"

\* C14, as stated: for every archive whose sole top-level entry is a
\* wrapper directory, whatever its name, the extraction leaves what the
\* wrapper holds directly in deps/icu.
C14_AnyWrapperHoisted ==
    SourceExtracted => dest = {"archive"}

\* C14, amended: for every archive whose top-level entry is the directory
\* icu, holding a and b, deps/icu ends up holding a and b directly (never
\* deps/icu/icu/a); when the archive's top-level entry is a directory of
\* another name, or no icu directory is there after the extraction for
\* another reason, the run fails with UnpackFailed, deps/icu is not
\* created and the run does not proceed to the version check.
C14_IcuHoisted ==
    /\ dest \cap { "icu@archive", "other@archive", "icu@stale", "tarball" } = {}
    /\ SourceExtracted /\ icu_tarball.top = "icu"
         => dest = {"archive"} /\ err # "UnpackFailed"
    /\ SourceExtracted /\ icu_tarball.top # "icu"
         => /\ pc = "error" /\ err = "UnpackFailed"
            /\ dest = {} /\ tmp = {}
            /\ "version-check" \notin steps
    /\ err = "UnpackFailed" => SourceExtracted /\ icu_tarball.top # "icu"

\* C14, witness: a retrieved archive with the top-level directory icu has
\* been extracted and the run has come to its end with deps/icu holding
\* what that directory held
C14_Witness ==
    /\ pc = "done" /\ src_kind = "url" /\ icu_tarball.top = "icu"
    /\ dest = {"archive"}

\* the file names of the model that end in .c, .cpp or .h, as strings
SourceNames ==
    [ f \in { <<"a", ".", "c">>, <<"a", ".", "c", "p", "p">>,
              <<"b", ".", "h">> } |->
        CASE f = <<"a", ".", "c">> -> "a.c"
          [] f = <<"a", ".", "c", "p", "p">> -> "a.cpp"
          [] f = <<"b", ".", "h">> -> "b.h" ]

\* C15: glob_to_var returns exactly one entry for each .c, .cpp or .h file
\* that lies directly in dir_base/dir_sub and no other entry (nothing for a
\* file of a subdirectory): patch_dir/<name> when <name> is a regular file
\* of dir_base/patch_dir, dir_sub/<name> otherwise.  The call changes no
\* file: the directories it reads are as before, nothing is copied.
C15_OneEntryPerSourceFile ==
    /\ [](glob.pc = "return" =>
            LET top == IF glob.walk = << >> THEN << >> ELSE glob.walk[1].files
                listed == { i \in 1..Len(top) : top[i] \in DOMAIN SourceNames }
                entry(f) ==
                    IF glob.patch_dir # "" /\ f \in glob.patchfiles
                    THEN glob.patch_dir \o "/" \o SourceNames[f]
                    ELSE "../../deps/icu/source/common/" \o SourceNames[f]
            IN /\ Len(glob.list) = Cardinality(listed)
               /\ \A i \in listed :
                    Cardinality({ k \in 1..Len(glob.list) :
                                    glob.list[k] = entry(top[i]) }) = 1
               /\ \A k \in 1..Len(glob.list) :
                    \E i \in listed : glob.list[k] = entry(top[i]))
    /\ [][/\ glob'.walk = glob.walk
          /\ glob'.patchfiles = glob.patchfiles
          /\ UNCHANGED << gypi, dest, tmp, dl >>]_vars

\* C15, witness: dir_sub holds a.c and b.h and a subdirectory with files,
\* the patch directory holds a.c; the call has returned the patch for a.c
\* and the canonical b.h
C15_Witness ==
    /\ glob.pc = "return"
    /\ Len(glob.walk) = 2 /\ glob.walk[2].files # << >>
    /\ glob.list = << "patches/67/source/common/a.c",
                      "../../deps/icu/source/common/b.h" >>

\* C16: a second run of configure_intl, with the same options, on the file
\* system a first successful run left and with nothing changed outside,
\* does not fail, and when it has returned its source lists icu_src_* are
\* those of the first run.
C16_RerunIdempotent ==
    earlier.run = 2
      => /\ pc \notin { "error", "crash" } /\ err = "none"
         /\ pc = "done" => icu_config.icu_src = earlier.icu_src

\* C16, witness: the second run of a bundle run from an archive source has
\* deleted deps/icu, extracted the archive again, decompressed the data file
\* again and returned with the source lists of the first run
C16_Witness ==
    /\ earlier.run = 2 /\ pc = "done"
    /\ earlier.icu_src # "unset" /\ icu_config.icu_src = earlier.icu_src
    /\ { "rmtree_dest", "rmtree_tmp", "unpack", "decompress" } \subseteq steps

\* the four steps of the acquisition
FourSteps == { "download", "verify", "unpack", "version-check" }

\* C17, as stated: two runs in the same mode execute the same of the steps
\* download, verify, unpack and version-check, whatever the file system
\* they start on; so a second run with the options of the first, started
\* on the file system the first left, executes the steps the first did.
C17_ModeDeterminesSteps ==
    earlier.run = 2 /\ pc = "done"
      => steps \cap FourSteps = earlier.steps \cap FourSteps

\* C17, amended: the mode alone determines the steps only in Disabled,
\* ExplicitPath and SystemProvided, where none of download, verify, unpack
\* and the check of uvernum.h runs.  In the bundle modes every run that
\* returns has run the version-check; unpack has run exactly when an
\* archive was given as --with-icu-source or deps/icu had to be fetched;
\* verify (and download, if the archive was not in the download path
\* already) has run only when deps/icu was no directory, no full canned
\* tree was in use and no source was given.
C17_StepsByModeAndFiles ==
    /\ [](SelectedMode \in { "Disabled", "ExplicitPath", "SystemProvided" }
            => steps \cap FourSteps = {})
    /\ [](SelectedMode \in { "SmallBundle", "FullBundle" } /\ pc = "done"
            => /\ "version-check" \in steps
               /\ "unpack" \in steps
                    <=> src_kind \in { "file", "url" } \/ localzip # "unset"
               /\ "verify" \in steps <=> localzip # "unset"
               /\ "download" \in steps => localzip # "unset")
    /\ [][pc = "locate" /\ pc' = "download"
            => /\ dest = {} /\ icu_full_path = "deps/icu"
               /\ with_icu_source = "unset" /\ src_kind = "unread"]_vars

\* C17, witness: a bundle run that started without deps/icu has downloaded,
\* verified, extracted and checked the version; the second run, in the same
\* mode, has found deps/icu and only checked the version
C17_Witness ==
    /\ earlier.run = 2 /\ pc = "done"
    /\ earlier.steps \cap FourSteps = FourSteps
    /\ steps \cap FourSteps = {"version-check"}

\* the data-file selection, the decompression and the source enumeration
DataSteps == { "data-file", "decompress", "glob" }

\* C18: in the bundle modes the run comes to the data-file selection only
\* when the ICU directory chosen exists and its uvernum.h is a file with a
\* version line whose version parsed and is not below the minimum; a run in
\* which the directory or the header is missing, or the header has no
\* version line, has aborted with a fatal error before any data-file
\* check, decompression or source enumeration.
C18_VersionBeforeData ==
    /\ [](/\ pc = "gate" => in_file.isfile /\ IsDir(icu_full_path)
          /\ pc = "data" \/ steps \cap DataSteps # {}
               => /\ BundleRun
                  /\ IsDir(icu_full_path)
                  /\ "version-check" \in steps
                  /\ icu_ver_major # None /\ IsNumeral(icu_ver_major)
                  /\ int(icu_ver_major) >= minimum_icu
          /\ err \in { "IcuMissing", "HeaderMissing", "VersionNotFound" }
               => /\ pc = "error"
                  /\ steps \cap DataSteps = {}
                  /\ gypi = "empty" /\ o.icu_data_in = "unset")
    /\ [][/\ pc = "check_dir" /\ ~IsDir(icu_full_path)
               => pc' = "error" /\ err' = "IcuMissing"
          /\ pc = "gate" /\ (\A k \in 1..Len(in_file.lines) :
                               ~in_file.lines[k].define)
               => pc' = "error" /\ err' = "VersionNotFound"]_vars

\* C18, witness: the tree a run fetched and extracted has a uvernum.h
\* without version line, and the run has aborted with VersionNotFound
C18_Witness ==
    /\ pc = "error" /\ err = "VersionNotFound"
    /\ dest = {"zip"} /\ with_intl = "full-icu"

\* warn('Ignoring redundant --with-icu-source=...') of line 890 was called
RedundantWarned == \E k \in 1..Len(warned) : warned[k] = "redundant_source"

\* C19: a --with-icu-source that is deps/icu itself (the full canned tree is
\* then not in use) is ignored with a warning that is not fatal: the source
\* is forgotten, no source is looked at, copied, retrieved or unpacked, a
\* deps/icu that exists is left exactly as it was for the whole run, and
\* the run goes on with deps/icu as a run without source does.
C19_RedundantSourceIgnored ==
    /\ [](RedundantWarned
            => /\ with_icu_source = "unset"
               /\ icu_full_path = "deps/icu" /\ ~icu_config.icu_full_canned
               /\ src_kind = "unread" /\ icu_tarball = no_tarball
               /\ steps \cap { "retrieve", "copytree", "rmtree_dest" } = {}
               /\ err \notin { "UnpackFailed", "FetchFailed" }
               /\ "old" \in dest
                    => dest = {"old"} /\ localzip = "unset"
                                      /\ "unpack" \notin steps)
    /\ [][/\ pc = "canned" /\ with_icu_source = "deps/icu"
               => RedundantWarned' /\ pc' = "source" /\ err' = err
                                   /\ dest' = dest /\ tmp' = tmp
          /\ RedundantWarned /\ pc = "source" => pc' = "locate"
          /\ RedundantWarned /\ dest # {} => dest' = dest]_vars

\* C19, witness: the run given deps/icu as source has completed on the
\* deps/icu that was there, after the warning
C19_Witness ==
    /\ RedundantWarned /\ pc = "done"
    /\ dest = {"old"} /\ with_intl = "full-icu"

\* the step of lines 934..936: the file icu_download returned is extracted
\* into deps
ManifestUnpack == pc = "dl_return" /\ "unpack" \in steps' /\ localzip # "None"

\* C20: on the manifest download path an archive is extracted into deps
\* only if the digest computed of it in this run equals the expected hash
\* of its manifest record, also when the file was already in the download
\* path and was taken without fetching: a file whose digest differs is
\* passed over and never extracted.
C20_UnpackedOnlyIfVerified ==
    /\ [](/\ "zip" \in dest
               => /\ steps \cap { "verify", "unpack" } = { "verify", "unpack" }
                  /\ localzip \in DlNames /\ dl[localzip] \in Digests
          /\ localzip \in DlNames => dl[localzip] \in Digests
                                       /\ "verify" \in steps)
    /\ [][/\ ManifestUnpack
               => /\ "verify" \in steps /\ dl' = dl
                  /\ \E i \in 1..Len(icus) :
                        /\ icus[i].name = localzip
                        /\ icus[i].expect = dl[localzip]
          /\ pc = "dl_loop" /\ idx <= Len(icus)
               /\ dl'[icus[idx].name] # icus[idx].expect
               => localzip' = "unset" /\ pc' # "dl_return"
          /\ dest' # dest /\ "zip" \in dest' => ManifestUnpack]_vars

\* C20, witness: nothing was fetched; a file that was in the download path
\* with another digest than expected was passed over with the warning, and
\* another file that was there and verified has been extracted
C20_Witness ==
    /\ pc = "check_dir" /\ dest = {"zip"}
    /\ retrieved = << >> /\ "download" \notin steps
    /\ \E k \in 1..Len(warned) : warned[k] = "mismatch"

\* C21, as stated: when a bundle run has completed, o.icu_data_in is the
\* path, relative to the dependency directory, of the very file that the
\* run checked as the selected data file (icu_data_path of line 993), and
\* that file exists; for every endianness and for the raw, the decompressed
\* and the host-endianness file.
C21_DataInIsCheckedFile ==
    BundleRun /\ pc = "done"
      => /\ o.icu_data_in = join(join("..", ".."), icu_data_path)
         /\ isfile(icu_data_path, Cat(icu_ver_major), dat, tmp)

====
